---- MODULE Spec2Model ----
(***************************************************************************)
(* Model of the agent_market_sim program (anchor-programs): the Agent,     *)
(* Market, Vault and Trade accounts, the token accounts they move value    *)
(* between, and the six instructions of lib.rs.                            *)
(*                                                                         *)
(* Every instruction is an operator from the account state and the         *)
(* presented accounts/arguments to a result [err, st, close_to]: the       *)
(* account validation of its #[derive(Accounts)] struct in field order,    *)
(* then the handler body statement by statement.  The host commits the     *)
(* result state only when err = "Ok" (process_instruction).                *)
(*                                                                         *)
(* Trade has the fields amount and price (state/mod.rs); execute_trade     *)
(* reads them as trade.amount_in and trade.amount_out: amount is the       *)
(* amount given (leg 1), price the amount received (leg 2).                *)
(*                                                                         *)
(* The token accounts are written only by the transfers of these           *)
(* instructions.  net_flow is a history variable the program does not      *)
(* hold: for each vault address, the amounts of the successful deposits    *)
(* and settlement inflows so far less those of the successful withdrawals  *)
(* and settlement outflows, taken from the arguments of the calls.         *)
(***************************************************************************)
EXTENDS Integers, Sequences, FiniteSets, TLC

VARIABLES agents, markets, vaults, trades, user_token_account, vault_token_account,
          net_flow

vars == <<agents, markets, vaults, trades, user_token_account, vault_token_account,
          net_flow>>

(* ------------------------------ bounds -------------------------------- *)

\* largest amount given to deposit_tokens, withdraw_tokens and place_trade
MaxAmount == 2
\* largest price given to place_trade
MaxPrice == 1
\* tokens of every mint each user's token account holds before the first call
InitBalance == 1
\* most Trade accounts alive at once
MaxLiveTrades == 2

Users == {"u1", "u2"}
\* mints of which markets are made, and one mint no market trades
PairMints == {"T1", "T2"}
Mints == PairMints \cup {"T3"}
\* trade_type is a u8; 0 = buy, 1 = sell, 2 = swap (lib.rs)
TradeTypes == {0, 1, 2}
\* the program's own errors (errors.rs)
ErrorCode == {"Unauthorized", "InvalidVault", "InvalidTokenMint", "InvalidTradeType",
              "InvalidTokenAccounts", "InvalidAgentOwner"}
Amounts == 1..MaxAmount
Prices == 1..MaxPrice

(* ------------------------- program addresses -------------------------- *)

\* the bump find_program_address returns: a fixed function of the seeds
bump_of(seeds) == 255 - Len(seeds)

\* Pubkey::find_program_address: the address is determined by the seeds
find_program_address(seeds) == [address |-> seeds, bump |-> bump_of(seeds)]

AgentKey(user) == find_program_address(<<"agent", user>>).address
MarketKey(a, b) == find_program_address(<<"market", a, b>>).address
VaultKey(a, b, t) == find_program_address(<<"vault", a, b, t>>).address
TradeKey(agent, market) == find_program_address(<<"trade", agent, market>>).address

AgentKeys == {AgentKey(u) : u \in Users}
MarketKeys == {MarketKey(p[1], p[2]) : p \in {q \in PairMints \X PairMints : q[1] # q[2]}}
TradeKeys == {TradeKey(a, m) : a \in AgentKeys, m \in MarketKeys}
VaultKeys == {VaultKey(a, b, c) : a \in PairMints, b \in PairMints, c \in PairMints}

(* ------------------------------ state --------------------------------- *)

St == [agents |-> agents, markets |-> markets, vaults |-> vaults, trades |-> trades,
       user_token_account |-> user_token_account,
       vault_token_account |-> vault_token_account]

Remove(f, k) == [x \in DOMAIN f \ {k} |-> f[x]]

Ok(s) == [err |-> "Ok", st |-> s, close_to |-> "none"]
Err(e, s) == [err |-> e, st |-> s, close_to |-> "none"]

Init ==
    /\ agents = <<>>
    /\ markets = <<>>
    /\ vaults = <<>>
    /\ trades = <<>>
    /\ user_token_account = [u \in Users |-> [m \in Mints |-> InitBalance]]
    /\ vault_token_account = <<>>
    /\ net_flow = [v \in VaultKeys |-> 0]

\* the host: an instruction that returns an error has no effect
process_instruction(s, r) == IF r.err = "Ok" THEN r.st ELSE s

\* the accounts after the host has processed a call's result
After(r) == process_instruction(St, r)

\* one instruction as a step: the accounts become what the host commits.  A
\* call that changes nothing is a stuttering step, which every behaviour allows.
Changes(r) == After(r) # St

(* --------------------------- token::transfer -------------------------- *)

\* the address a signer-seeds tuple (seeds and bump) signs for
create_program_address(seeds, bump) ==
    IF bump = bump_of(seeds) THEN seeds ELSE <<"off_curve">>

\* a transfer that credits the vault without debiting the user
transfer_to_vault_no_debit(s, user, mint, vault, amount) ==
    IF s.user_token_account[user][mint] < amount
    THEN Err("InsufficientFunds", s)
    ELSE Ok([s EXCEPT !.vault_token_account[vault] = @ + amount])

\* token::transfer from a user's token account to a vault's token account,
\* authorized by the user's signature
transfer_to_vault(s, user, mint, vault, amount) ==
    IF s.user_token_account[user][mint] < amount
    THEN Err("InsufficientFunds", s)
    ELSE Ok([s EXCEPT !.user_token_account[user][mint] = @ - amount,
                      !.vault_token_account[vault] = @ + amount])

\* token::transfer from a vault's token account to a user's token account,
\* authorized by the vault: signer is the address the signer seeds derive
transfer_from_vault(s, vault, user, mint, signer, amount) ==
    IF signer # vault
    THEN Err("PrivilegeEscalation", s)
    ELSE IF s.vault_token_account[vault] < amount
    THEN Err("InsufficientFunds", s)
    ELSE Ok([s EXCEPT !.vault_token_account[vault] = @ - amount,
                      !.user_token_account[user][mint] = @ + amount])

(* --------------------------- register_agent --------------------------- *)

\* init_if_needed in place of init: a registered owner registers again
register_agent_init_if_needed(s, user) ==
    LET pda == find_program_address(<<"agent", user>>) IN
    Ok([s EXCEPT !.agents = (pda.address :> [owner |-> user, bump |-> pda.bump]) @@ @])

register_agent(s, user) ==
    LET pda == find_program_address(<<"agent", user>>) IN
    IF pda.address \in DOMAIN s.agents
    THEN Err("AccountAlreadyInUse", s)
    ELSE Ok([s EXCEPT !.agents = @ @@ (pda.address :> [owner |-> user, bump |-> pda.bump])])

RegisterAgent ==
    \E user \in Users :
        LET r == register_agent(St, user) IN
        /\ Changes(r)
        /\ agents' = After(r).agents
        /\ markets' = After(r).markets
        /\ vaults' = After(r).vaults
        /\ trades' = After(r).trades
        /\ user_token_account' = After(r).user_token_account
        /\ vault_token_account' = After(r).vault_token_account
        /\ UNCHANGED net_flow

(* -------------------------- initialize_market ------------------------- *)

\* init_if_needed in place of init: an occupied address is taken over
init_vault_if_needed(s, market_key, pda, token) ==
    Ok([s EXCEPT
        !.vaults = (pda.address :>
            [market |-> market_key, token |-> token, bump |-> pda.bump]) @@ @,
        !.vault_token_account = (pda.address :> 0) @@ @])

\* #[account(init, seeds = ..)] of a Vault: fails when the address is occupied
init_vault(s, market_key, pda, token) ==
    IF pda.address \in DOMAIN s.vaults
    THEN Err("AccountAlreadyInUse", s)
    ELSE Ok([s EXCEPT
            !.vaults = @ @@ (pda.address :>
                [market |-> market_key, token |-> token, bump |-> pda.bump]),
            !.vault_token_account = @ @@ (pda.address :> 0)])

\* the handler with vault_b.token set from token_a_mint
initialize_market_vault_b_token_a(s, token_a_mint, token_b_mint) ==
    LET market_pda == find_program_address(<<"market", token_a_mint, token_b_mint>>)
        vault_a_pda == find_program_address(
            <<"vault", token_a_mint, token_b_mint, token_a_mint>>)
        vault_b_pda == find_program_address(
            <<"vault", token_a_mint, token_b_mint, token_b_mint>>)
    IN
    IF market_pda.address \in DOMAIN s.markets
    THEN Err("AccountAlreadyInUse", s)
    ELSE
      LET s1 == [s EXCEPT !.markets = @ @@ (market_pda.address :>
                    [token_a |-> token_a_mint, token_b |-> token_b_mint,
                     bump |-> market_pda.bump])]
          ra == init_vault(s1, market_pda.address, vault_a_pda, token_a_mint)
      IN
      IF ra.err # "Ok" THEN ra
      ELSE init_vault(ra.st, market_pda.address, vault_b_pda, token_a_mint)

initialize_market(s, token_a_mint, token_b_mint) ==
    LET market_pda == find_program_address(<<"market", token_a_mint, token_b_mint>>)
        vault_a_pda == find_program_address(
            <<"vault", token_a_mint, token_b_mint, token_a_mint>>)
        vault_b_pda == find_program_address(
            <<"vault", token_a_mint, token_b_mint, token_b_mint>>)
    IN
    IF market_pda.address \in DOMAIN s.markets
    THEN Err("AccountAlreadyInUse", s)
    ELSE
      LET s1 == [s EXCEPT !.markets = @ @@ (market_pda.address :>
                    [token_a |-> token_a_mint, token_b |-> token_b_mint,
                     bump |-> market_pda.bump])]
          ra == init_vault(s1, market_pda.address, vault_a_pda, token_a_mint)
      IN
      IF ra.err # "Ok" THEN ra
      ELSE init_vault(ra.st, market_pda.address, vault_b_pda, token_b_mint)

InitializeMarket ==
    \E token_a_mint \in PairMints, token_b_mint \in PairMints :
        LET r == initialize_market(St, token_a_mint, token_b_mint) IN
        /\ Changes(r)
        /\ agents' = After(r).agents
        /\ markets' = After(r).markets
        /\ vaults' = After(r).vaults
        /\ trades' = After(r).trades
        /\ user_token_account' = After(r).user_token_account
        /\ vault_token_account' = After(r).vault_token_account
        /\ UNCHANGED net_flow

(* --------------------------- deposit_tokens --------------------------- *)

\* the Vault account a caller presents for (market, token_mint): the address
\* the seeds constraint derives from the market's tokens and the mint
vault_address(s, market, token_mint) ==
    VaultKey(s.markets[market].token_a, s.markets[market].token_b, token_mint)

\* account validation shared by DepositTokens and WithdrawTokens: the accounts
\* are loaded in field order, then the constraints are checked in field order.
\* has_one = owner on the agent names no account of the struct; its comment
\* says it checks that the signing user is the agent's owner, and so it is
\* taken here.  The user's token account is the one of (user, token_mint), as
\* token::mint and token::authority require.
ledger_accounts(s, user, agent, market, token_mint) ==
    IF agent \notin DOMAIN s.agents THEN "AccountNotInitialized"
    ELSE IF market \notin DOMAIN s.markets THEN "AccountNotInitialized"
    ELSE IF vault_address(s, market, token_mint) \notin DOMAIN s.vaults
    THEN "AccountNotInitialized"
    ELSE IF s.agents[agent].owner # user THEN "ConstraintHasOne"
    ELSE IF s.vaults[vault_address(s, market, token_mint)].market # market
    THEN "ConstraintHasOne"
    ELSE "Ok"

\* a deposit credited to the market's token_a vault whatever the mint
deposit_tokens_wrong_vault(s, user, agent, market, token_mint, amount) ==
    LET v == ledger_accounts(s, user, agent, market, token_mint) IN
    IF v # "Ok" THEN Err(v, s)
    ELSE IF token_mint # s.markets[market].token_a
            /\ token_mint # s.markets[market].token_b
    THEN Err("InvalidTokenMint", s)
    ELSE transfer_to_vault(s, user, token_mint,
             vault_address(s, market, s.markets[market].token_a), amount)

deposit_tokens(s, user, agent, market, token_mint, amount) ==
    LET v == ledger_accounts(s, user, agent, market, token_mint) IN
    IF v # "Ok" THEN Err(v, s)
    ELSE IF token_mint # s.markets[market].token_a
            /\ token_mint # s.markets[market].token_b
    THEN Err("InvalidTokenMint", s)
    ELSE transfer_to_vault(s, user, token_mint,
                           vault_address(s, market, token_mint), amount)

DepositTokens ==
    \E user \in Users, agent \in AgentKeys, market \in MarketKeys,
       token_mint \in Mints, amount \in Amounts :
        LET r == deposit_tokens(St, user, agent, market, token_mint, amount) IN
        /\ Changes(r)
        /\ agents' = After(r).agents
        /\ markets' = After(r).markets
        /\ vaults' = After(r).vaults
        /\ trades' = After(r).trades
        /\ user_token_account' = After(r).user_token_account
        /\ vault_token_account' = After(r).vault_token_account
        /\ net_flow' = [net_flow EXCEPT
               ![vault_address(St, market, token_mint)] = @ + amount]

(* --------------------------- withdraw_tokens -------------------------- *)

\* a withdrawal that drops the transfer's result instead of returning it
withdraw_tokens_result_dropped(s, user, agent, market, token_mint, amount) ==
    LET v == ledger_accounts(s, user, agent, market, token_mint) IN
    IF v # "Ok" THEN Err(v, s)
    ELSE
      LET vault == vault_address(s, market, token_mint)
          signer == create_program_address(
              <<"vault", s.markets[market].token_a, s.markets[market].token_b,
                token_mint>>, s.vaults[vault].bump)
      IN Ok(transfer_from_vault(s, vault, user, token_mint, signer, amount).st)

\* a withdrawal paid out of the market's token_a vault whatever the mint
withdraw_tokens_token_a_vault(s, user, agent, market, token_mint, amount) ==
    LET v == ledger_accounts(s, user, agent, market, token_mint) IN
    IF v # "Ok" THEN Err(v, s)
    ELSE
      LET vault == vault_address(s, market, s.markets[market].token_a)
          signer == create_program_address(
              <<"vault", s.markets[market].token_a, s.markets[market].token_b,
                s.markets[market].token_a>>, s.vaults[vault].bump)
      IN transfer_from_vault(s, vault, user, token_mint, signer, amount)

withdraw_tokens(s, user, agent, market, token_mint, amount) ==
    LET v == ledger_accounts(s, user, agent, market, token_mint) IN
    IF v # "Ok" THEN Err(v, s)
    ELSE
      LET vault == vault_address(s, market, token_mint)
          signer == create_program_address(
              <<"vault", s.markets[market].token_a, s.markets[market].token_b,
                token_mint>>, s.vaults[vault].bump)
      IN transfer_from_vault(s, vault, user, token_mint, signer, amount)

WithdrawTokens ==
    \E user \in Users, agent \in AgentKeys, market \in MarketKeys,
       token_mint \in Mints, amount \in Amounts :
        LET r == withdraw_tokens(St, user, agent, market, token_mint, amount) IN
        /\ Changes(r)
        /\ agents' = After(r).agents
        /\ markets' = After(r).markets
        /\ vaults' = After(r).vaults
        /\ trades' = After(r).trades
        /\ user_token_account' = After(r).user_token_account
        /\ vault_token_account' = After(r).vault_token_account
        /\ net_flow' = [net_flow EXCEPT
               ![vault_address(St, market, token_mint)] = @ - amount]

(* ----------------------------- place_trade ---------------------------- *)

\* a placement with init_if_needed in place of init: it rewrites a live Trade
place_trade_init_if_needed(s, agent, market, trade_type, amount, price) ==
    LET pda == find_program_address(<<"trade", agent, market>>) IN
    IF agent \notin DOMAIN s.agents THEN Err("AccountNotInitialized", s)
    ELSE IF market \notin DOMAIN s.markets THEN Err("AccountNotInitialized", s)
    ELSE Ok([s EXCEPT !.trades = (pda.address :>
                [agent |-> agent, market |-> market, trade_type |-> trade_type,
                 amount |-> amount, price |-> price, bump |-> pda.bump]) @@ @])

place_trade(s, agent, market, trade_type, amount, price) ==
    LET pda == find_program_address(<<"trade", agent, market>>) IN
    IF agent \notin DOMAIN s.agents THEN Err("AccountNotInitialized", s)
    ELSE IF market \notin DOMAIN s.markets THEN Err("AccountNotInitialized", s)
    ELSE IF pda.address \in DOMAIN s.trades THEN Err("AccountAlreadyInUse", s)
    ELSE Ok([s EXCEPT !.trades = @ @@ (pda.address :>
                [agent |-> agent, market |-> market, trade_type |-> trade_type,
                 amount |-> amount, price |-> price, bump |-> pda.bump])])

PlaceTrade ==
    \E agent \in AgentKeys, market \in MarketKeys, trade_type \in TradeTypes,
       amount \in Amounts, price \in Prices :
        LET r == place_trade(St, agent, market, trade_type, amount, price) IN
        /\ Cardinality(DOMAIN trades) < MaxLiveTrades
        /\ Changes(r)
        /\ agents' = After(r).agents
        /\ markets' = After(r).markets
        /\ vaults' = After(r).vaults
        /\ trades' = After(r).trades
        /\ user_token_account' = After(r).user_token_account
        /\ vault_token_account' = After(r).vault_token_account
        /\ UNCHANGED net_flow

(* ---------------------------- execute_trade --------------------------- *)

\* account validation of ExecuteTrade: the accounts are loaded in field
\* order, then the constraints are checked in field order
execute_accounts(s, trade, market, agent, token_in_mint, token_out_mint) ==
    IF trade \notin DOMAIN s.trades THEN "AccountNotInitialized"
    ELSE IF market \notin DOMAIN s.markets THEN "AccountNotInitialized"
    ELSE IF agent \notin DOMAIN s.agents THEN "AccountNotInitialized"
    ELSE IF vault_address(s, market, token_in_mint) \notin DOMAIN s.vaults
    THEN "AccountNotInitialized"
    ELSE IF vault_address(s, market, token_out_mint) \notin DOMAIN s.vaults
    THEN "AccountNotInitialized"
    ELSE IF s.trades[trade].agent # agent THEN "ConstraintHasOne"
    ELSE IF s.vaults[vault_address(s, market, token_in_mint)].market # market
    THEN "ConstraintHasOne"
    ELSE IF s.vaults[vault_address(s, market, token_in_mint)].token # token_in_mint
    THEN "ConstraintHasOne"
    ELSE IF s.vaults[vault_address(s, market, token_out_mint)].market # market
    THEN "ConstraintHasOne"
    ELSE IF s.vaults[vault_address(s, market, token_out_mint)].token # token_out_mint
    THEN "ConstraintHasOne"
    ELSE "Ok"

\* the resolution with the two directions exchanged
resolve_tokens_swapped(trade_type, market_account) ==
    IF trade_type = 0
    THEN <<market_account.token_b, market_account.token_a>>
    ELSE <<market_account.token_a, market_account.token_b>>

\* the pair (token_in_key, token_out_key) the handler resolves
resolve_tokens(trade_type, market_account) ==
    IF trade_type = 0
    THEN <<market_account.token_a, market_account.token_b>>
    ELSE <<market_account.token_b, market_account.token_a>>

\* a settlement that leaves the Trade account in place
close_trade_skipped(s, trade, user) ==
    [err |-> "Ok", st |-> s, close_to |-> "none"]

\* a close that erases the Trade's agent along with the Trade
close_trade_and_agent(s, trade, user) ==
    [err |-> "Ok",
     st |-> [s EXCEPT !.trades = Remove(@, trade),
                      !.agents = Remove(@, s.trades[trade].agent)],
     close_to |-> user]

\* #[account(close = user)]: the Trade account is erased and its storage
\* deposit paid to user
close_trade(s, trade, user) ==
    [err |-> "Ok", st |-> [s EXCEPT !.trades = Remove(@, trade)], close_to |-> user]

\* lines 108-141 with the second transfer's error dropped instead of returned
settle_leg2_unchecked(s, user, trade, market, token_in_mint, token_out_mint, token_out_key) ==
    LET leg1 == transfer_to_vault(s, user, token_in_mint,
                    vault_address(s, market, token_in_mint), s.trades[trade].amount)
    IN
    IF leg1.err # "Ok" THEN leg1
    ELSE
      LET vault_out == vault_address(s, market, token_out_mint)
          signer == create_program_address(
              <<"vault", s.markets[market].token_a, s.markets[market].token_b,
                token_out_key>>, s.vaults[vault_out].bump)
      IN Ok(transfer_from_vault(leg1.st, vault_out, user, token_out_mint,
                                signer, s.trades[trade].price).st)

\* lines 108-141 with amount_in and amount_out exchanged
settle_amounts_swapped(s, user, trade, market, token_in_mint, token_out_mint, token_out_key) ==
    LET leg1 == transfer_to_vault(s, user, token_in_mint,
                    vault_address(s, market, token_in_mint), s.trades[trade].price)
    IN
    IF leg1.err # "Ok" THEN leg1
    ELSE
      LET vault_out == vault_address(s, market, token_out_mint)
          signer == create_program_address(
              <<"vault", s.markets[market].token_a, s.markets[market].token_b,
                token_out_key>>, s.vaults[vault_out].bump)
      IN transfer_from_vault(leg1.st, vault_out, user, token_out_mint,
                             signer, s.trades[trade].amount)

\* lines 108-141 with the signer seeds built from the token-in key
settle_signs_token_in(s, user, trade, market, token_in_mint, token_out_mint, token_out_key) ==
    LET leg1 == transfer_to_vault(s, user, token_in_mint,
                    vault_address(s, market, token_in_mint), s.trades[trade].amount)
    IN
    IF leg1.err # "Ok" THEN leg1
    ELSE
      LET vault_out == vault_address(s, market, token_out_mint)
          signer == create_program_address(
              <<"vault", s.markets[market].token_a, s.markets[market].token_b,
                token_in_mint>>, s.vaults[vault_out].bump)
      IN transfer_from_vault(leg1.st, vault_out, user, token_out_mint,
                             signer, s.trades[trade].price)

\* the two transfers of the handler: leg 1 moves trade.amount_in from the user's
\* token-in account to the token-in vault, then leg 2 moves trade.amount_out
\* from the token-out vault to the user's token-out account, signed with the
\* vault's seeds; `?` returns the first error
settle(s, user, trade, market, token_in_mint, token_out_mint, token_out_key) ==
    LET leg1 == transfer_to_vault(s, user, token_in_mint,
                    vault_address(s, market, token_in_mint), s.trades[trade].amount)
    IN
    IF leg1.err # "Ok" THEN leg1
    ELSE
      LET vault_out == vault_address(s, market, token_out_mint)
          signer == create_program_address(
              <<"vault", s.markets[market].token_a, s.markets[market].token_b,
                token_out_key>>, s.vaults[vault_out].bump)
      IN transfer_from_vault(leg1.st, vault_out, user, token_out_mint,
                             signer, s.trades[trade].price)

\* the handler with the mint check moved behind the first transfer
execute_trade_check_after_leg1(s, user, trade, market, agent, token_in_mint, token_out_mint) ==
    LET v == execute_accounts(s, trade, market, agent, token_in_mint, token_out_mint) IN
    IF v # "Ok" THEN Err(v, s)
    ELSE
      LET keys == resolve_tokens(s.trades[trade].trade_type, s.markets[market])
          leg1 == transfer_to_vault(s, user, token_in_mint,
                      vault_address(s, market, token_in_mint), s.trades[trade].amount)
      IN
      IF leg1.err # "Ok" THEN leg1
      ELSE IF token_in_mint # keys[1] \/ token_out_mint # keys[2]
      THEN Err("InvalidTokenAccounts", leg1.st)
      ELSE
        LET legs == settle(s, user, trade, market, token_in_mint, token_out_mint,
                           keys[2])
        IN
        IF legs.err # "Ok" THEN legs
        ELSE close_trade(legs.st, trade, user)

execute_trade(s, user, trade, market, agent, token_in_mint, token_out_mint) ==
    LET v == execute_accounts(s, trade, market, agent, token_in_mint, token_out_mint) IN
    IF v # "Ok" THEN Err(v, s)
    ELSE
      LET keys == resolve_tokens(s.trades[trade].trade_type, s.markets[market])
          token_in_key == keys[1]
          token_out_key == keys[2]
      IN
      IF token_in_mint # token_in_key \/ token_out_mint # token_out_key
      THEN Err("InvalidTokenAccounts", s)
      ELSE
        LET legs == settle(s, user, trade, market, token_in_mint, token_out_mint,
                           token_out_key)
        IN
        IF legs.err # "Ok" THEN legs
        ELSE close_trade(legs.st, trade, user)

ExecuteTrade ==
    \E user \in Users, trade \in TradeKeys, market \in MarketKeys, agent \in AgentKeys,
       token_in_mint \in Mints, token_out_mint \in Mints :
        LET r == execute_trade(St, user, trade, market, agent,
                               token_in_mint, token_out_mint)
        IN
        /\ Changes(r)
        /\ agents' = After(r).agents
        /\ markets' = After(r).markets
        /\ vaults' = After(r).vaults
        /\ trades' = After(r).trades
        /\ user_token_account' = After(r).user_token_account
        /\ vault_token_account' = After(r).vault_token_account
        /\ net_flow' = [net_flow EXCEPT
               ![vault_address(St, market, token_in_mint)] = @ + trades[trade].amount,
               ![vault_address(St, market, token_out_mint)] = @ - trades[trade].price]

Next ==
    \/ RegisterAgent
    \/ InitializeMarket
    \/ DepositTokens
    \/ WithdrawTokens
    \/ PlaceTrade
    \/ ExecuteTrade

Spec == Init /\ [][Next]_vars

(* ------------------------------ claims -------------------------------- *)

\* C1: atomicity of settlement.  For every execute_trade call that can be made
\* in a reachable state: when the call fails, leg 2's failure included, the
\* accounts are as before the call (leg 1's effect is absent and the Trade is
\* still live); and the user's token-in account is never left debited without
\* the token-out account credited by the trade's amount_out.
C1_SettlementAtomic ==
    \A user \in Users, trade \in DOMAIN trades, market \in DOMAIN markets,
       agent \in AgentKeys, token_in_mint \in Mints, token_out_mint \in Mints :
        LET r == execute_trade(St, user, trade, market, agent,
                               token_in_mint, token_out_mint)
            s == After(r)
        IN
        /\ r.err # "Ok" => s = St /\ trade \in DOMAIN s.trades
        /\ s.user_token_account[user][token_in_mint]
               < user_token_account[user][token_in_mint]
           => /\ token_out_mint # token_in_mint
              /\ s.user_token_account[user][token_out_mint]
                     = user_token_account[user][token_out_mint] + trades[trade].price
              /\ s.user_token_account[user][token_in_mint]
                     = user_token_account[user][token_in_mint] - trades[trade].amount

\* C1 witness: a call whose leg 1 succeeds and whose leg 2 then fails for
\* insufficient vault balance, so that there is a leg-1 effect to roll back
C1_Leg2FailsAfterLeg1 ==
    \E user \in Users, trade \in DOMAIN trades, market \in DOMAIN markets :
        LET keys == resolve_tokens(trades[trade].trade_type, markets[market])
            r == execute_trade(St, user, trade, market, trades[trade].agent,
                               keys[1], keys[2])
        IN
        /\ user_token_account[user][keys[1]] >= trades[trade].amount
        /\ vault_token_account[vault_address(St, market, keys[2])] < trades[trade].price
        /\ r.err = "InsufficientFunds"
        /\ r.st # St
        /\ After(r) = St

\* C2: for a live Trade presented with its agent and the mints its direction
\* resolves to (direction 0: token_a in, token_b out; otherwise the reverse),
\* execute_trade succeeds exactly when the token-out vault holds at least
\* amount_out and the user's token-in account holds at least amount_in; on
\* success exactly amount_in moves from the user to the token-in vault, exactly
\* amount_out from the token-out vault to the user, nothing else changes and
\* the Trade is removed.  place_trade stores the amounts it is given.
C2_SettlementAmounts ==
    /\ \A user \in Users, trade \in DOMAIN trades, market \in DOMAIN markets :
        LET t == trades[trade]
            token_in == IF t.trade_type = 0 THEN markets[market].token_a
                        ELSE markets[market].token_b
            token_out == IF t.trade_type = 0 THEN markets[market].token_b
                         ELSE markets[market].token_a
            vault_in == VaultKey(markets[market].token_a, markets[market].token_b, token_in)
            vault_out == VaultKey(markets[market].token_a, markets[market].token_b, token_out)
            r == execute_trade(St, user, trade, market, t.agent, token_in, token_out)
        IN
        /\ r.err = "Ok" <=> /\ vault_token_account[vault_out] >= t.price
                            /\ user_token_account[user][token_in] >= t.amount
        /\ r.err = "Ok" =>
             After(r) = [St EXCEPT
                 !.user_token_account[user][token_in] = @ - t.amount,
                 !.user_token_account[user][token_out] = @ + t.price,
                 !.vault_token_account[vault_in] = @ + t.amount,
                 !.vault_token_account[vault_out] = @ - t.price,
                 !.trades = Remove(@, trade)]
    /\ \A agent \in AgentKeys, market \in MarketKeys, trade_type \in TradeTypes,
          amount \in Amounts, price \in Prices :
        LET r == place_trade(St, agent, market, trade_type, amount, price) IN
        r.err = "Ok" =>
            LET t == After(r).trades[TradeKey(agent, market)] IN
            /\ t.trade_type = trade_type
            /\ t.amount = amount
            /\ t.price = price

\* C2 witness: a live Trade with amount_in different from amount_out that a
\* user can settle
C2_TradeSettles ==
    \E user \in Users, trade \in DOMAIN trades :
        LET t == trades[trade]
            keys == resolve_tokens(t.trade_type, markets[t.market])
        IN
        /\ t.amount # t.price
        /\ execute_trade(St, user, trade, t.market, t.agent, keys[1], keys[2]).err = "Ok"

\* C3: every deposit_tokens call that succeeds adds amount to the custody
\* balance of the vault of (market, token_mint), takes amount from the caller's
\* token account of that mint, and changes no other balance and no Agent,
\* Market, Vault or Trade account.
C3_DepositFrame ==
    \A user \in Users, agent \in AgentKeys, market \in MarketKeys,
       token_mint \in Mints, amount \in Amounts :
        LET r == deposit_tokens(St, user, agent, market, token_mint, amount) IN
        r.err = "Ok" =>
            After(r) = [St EXCEPT
                !.user_token_account[user][token_mint] = @ - amount,
                !.vault_token_account[VaultKey(markets[market].token_a,
                     markets[market].token_b, token_mint)] = @ + amount]

\* C3 witness: a deposit into a token_b vault that succeeds while a Trade is live
C3_DepositSucceeds ==
    \E user \in Users, agent \in AgentKeys, market \in MarketKeys, amount \in Amounts :
        /\ market \in DOMAIN markets
        /\ trades # <<>>
        /\ deposit_tokens(St, user, agent, market, markets[market].token_b, amount).err
               = "Ok"

\* C4: a withdraw_tokens call whose amount exceeds the vault's custody balance
\* fails and changes no balance, and no custody or user balance is ever
\* negative.
C4_WithdrawNoOverdraft ==
    /\ \A v \in DOMAIN vault_token_account : vault_token_account[v] >= 0
    /\ \A u \in Users, m \in Mints : user_token_account[u][m] >= 0
    /\ \A user \in Users, agent \in AgentKeys, market \in DOMAIN markets,
          token_mint \in PairMints, amount \in Amounts :
        LET r == withdraw_tokens(St, user, agent, market, token_mint, amount) IN
        amount > vault_token_account[VaultKey(markets[market].token_a,
                                              markets[market].token_b, token_mint)]
            => r.err # "Ok" /\ After(r) = St

\* C4 witness: an agent owner asks for more than a non-empty vault holds
C4_OverdraftRefused ==
    \E user \in Users, market \in DOMAIN markets, token_mint \in PairMints,
       amount \in Amounts :
        LET vault == VaultKey(markets[market].token_a, markets[market].token_b,
                              token_mint)
        IN
        /\ vault_token_account[vault] > 0
        /\ amount > vault_token_account[vault]
        /\ withdraw_tokens(St, user, AgentKey(user), market, token_mint, amount).err
               = "InsufficientFunds"

\* C5: place_trade with a direction other than 0 or 1 creates no Trade, so
\* every live Trade has direction 0 or 1.
C5_DirectionIsBuyOrSell ==
    \A trade \in DOMAIN trades : trades[trade].trade_type \in {0, 1}

\* C6: the Trade at an address is the Trade of that (agent, market), so there
\* is at most one live Trade per (agent, market); place_trade for an occupied
\* (agent, market) fails and leaves every account as it was; place_trade for a
\* free (agent, market) of a registered agent and an initialized market
\* succeeds, adds that one Trade and leaves every live Trade as it was.
C6_OneTradePerAgentMarket ==
    /\ \A trade \in DOMAIN trades :
          trade = TradeKey(trades[trade].agent, trades[trade].market)
    /\ \A agent \in AgentKeys, market \in MarketKeys, trade_type \in TradeTypes,
          amount \in Amounts, price \in Prices :
        LET r == place_trade(St, agent, market, trade_type, amount, price)
            key == TradeKey(agent, market)
        IN
        /\ key \in DOMAIN trades => r.err # "Ok" /\ After(r) = St
        /\ (key \notin DOMAIN trades /\ agent \in DOMAIN agents
                /\ market \in DOMAIN markets)
           => /\ r.err = "Ok"
              /\ DOMAIN After(r).trades = DOMAIN trades \cup {key}
              /\ After(r).trades[key].agent = agent
              /\ After(r).trades[key].market = market
              /\ \A other \in DOMAIN trades : After(r).trades[other] = trades[other]

\* C6 witness: one agent has live Trades on two markets, and a further
\* placement on one of them is refused
C6_TwoTradesOfOneAgent ==
    \E agent \in AgentKeys, m1 \in MarketKeys, m2 \in MarketKeys :
        /\ m1 # m2
        /\ TradeKey(agent, m1) \in DOMAIN trades
        /\ TradeKey(agent, m2) \in DOMAIN trades
        /\ trades[TradeKey(agent, m1)] # trades[TradeKey(agent, m2)]
        /\ place_trade(St, agent, m1, 0, 1, 1).err = "AccountAlreadyInUse"

\* C7: a successful execute_trade removes exactly the Trade presented; after
\* it a further execute_trade for that Trade fails and changes nothing, and a
\* place_trade for its (agent, market) succeeds; execute_trade for an address
\* holding no Trade fails and changes nothing; no other instruction removes or
\* changes a live Trade, and a failed execute_trade changes none.
C7_SettledOnce ==
    /\ \A user \in Users, trade \in TradeKeys, market \in MarketKeys,
          agent \in AgentKeys, token_in_mint \in Mints,
          token_out_mint \in Mints :
        LET r == execute_trade(St, user, trade, market, agent,
                               token_in_mint, token_out_mint)
            s == After(r)
        IN
        /\ trade \notin DOMAIN trades => r.err # "Ok" /\ s = St
        /\ r.err # "Ok" => s.trades = trades
        /\ r.err = "Ok" =>
            /\ s.trades = Remove(trades, trade)
            /\ \A user2 \in Users :
                LET again == execute_trade(s, user2, trade, market, agent,
                                           token_in_mint, token_out_mint)
                IN again.err # "Ok" /\ process_instruction(s, again) = s
            /\ place_trade(s, trades[trade].agent, trades[trade].market,
                           trades[trade].trade_type, trades[trade].amount,
                           trades[trade].price).err = "Ok"
    /\ \A user \in Users : After(register_agent(St, user)).trades = trades
    /\ \A a \in PairMints, b \in PairMints :
          After(initialize_market(St, a, b)).trades = trades
    /\ \A user \in Users, agent \in AgentKeys, market \in MarketKeys,
          token_mint \in Mints, amount \in Amounts :
        /\ After(deposit_tokens(St, user, agent, market, token_mint, amount)).trades
               = trades
        /\ After(withdraw_tokens(St, user, agent, market, token_mint, amount)).trades
               = trades
    /\ \A agent \in AgentKeys, market \in MarketKeys, trade_type \in TradeTypes,
          amount \in Amounts, price \in Prices :
        \A other \in DOMAIN trades :
            LET s == After(place_trade(St, agent, market, trade_type, amount, price))
            IN other \in DOMAIN s.trades /\ s.trades[other] = trades[other]

\* C7 witness: a live Trade that a user can settle while another Trade is live
C7_TradeCanSettle ==
    \E user \in Users, trade \in DOMAIN trades :
        LET t == trades[trade]
            keys == resolve_tokens(t.trade_type, markets[t.market])
        IN
        /\ Cardinality(DOMAIN trades) = 2
        /\ execute_trade(St, user, trade, t.market, t.agent, keys[1], keys[2]).err = "Ok"

C9_WrongAgentUnauthorized ==
    \A user \in Users, trade \in DOMAIN trades, agent \in DOMAIN agents :
        LET t == trades[trade]
            keys == resolve_tokens(t.trade_type, markets[t.market])
            r == execute_trade(St, user, trade, t.market, agent, keys[1], keys[2])
        IN
        agent # t.agent => r.err = "Unauthorized" /\ After(r) = St

\* C10: a successful execute_trade is signed by the owner of the agent stored
\* in the Trade, and the Trade's storage deposit is paid to that owner.
C10_DepositToAgentOwner ==
    \A user \in Users, trade \in DOMAIN trades, market \in DOMAIN markets,
       token_in_mint \in Mints, token_out_mint \in Mints :
        LET r == execute_trade(St, user, trade, market, trades[trade].agent,
                               token_in_mint, token_out_mint)
        IN
        r.err = "Ok" =>
            /\ user = agents[trades[trade].agent].owner
            /\ r.close_to = agents[trades[trade].agent].owner

\* C11: withdraw_tokens signed by a user who is not the owner of the Agent
\* presented fails with InvalidAgentOwner and changes no balance.
C11_NonOwnerInvalidAgentOwner ==
    \A user \in Users, agent \in DOMAIN agents, market \in DOMAIN markets,
       amount \in Amounts :
        LET r == withdraw_tokens(St, user, agent, market, markets[market].token_a, amount)
        IN
        agents[agent].owner # user
            => r.err = "InvalidAgentOwner" /\ After(r) = St

\* C12: deposit_tokens and withdraw_tokens by an agent's owner with a mint that
\* is neither token of the market fail with InvalidTokenMint and move no
\* tokens.
C12_ForeignMintInvalidTokenMint ==
    \A agent \in DOMAIN agents, market \in DOMAIN markets, token_mint \in Mints,
       amount \in Amounts :
        LET user == agents[agent].owner
            d == deposit_tokens(St, user, agent, market, token_mint, amount)
            w == withdraw_tokens(St, user, agent, market, token_mint, amount)
        IN
        token_mint \notin {markets[market].token_a, markets[market].token_b}
            => /\ d.err = "InvalidTokenMint" /\ After(d) = St
               /\ w.err = "InvalidTokenMint" /\ After(w) = St

\* C13: whichever instruction is called with whichever arguments, a call that
\* returns one of the program's own errors has written nothing when it returns
\* (the state the handler leaves is the state it was given), and the accounts
\* after the failed call are the accounts before it.
C13_ValidationBeforeEffect ==
    /\ \A user \in Users :
        LET r == register_agent(St, user) IN
        r.err \in ErrorCode => r.st = St /\ After(r) = St
    /\ \A a \in Mints, b \in Mints :
        LET r == initialize_market(St, a, b) IN
        r.err \in ErrorCode => r.st = St /\ After(r) = St
    /\ \A user \in Users, agent \in AgentKeys, market \in MarketKeys,
          token_mint \in Mints, amount \in Amounts :
        LET d == deposit_tokens(St, user, agent, market, token_mint, amount)
            w == withdraw_tokens(St, user, agent, market, token_mint, amount)
        IN
        /\ d.err \in ErrorCode => d.st = St /\ After(d) = St
        /\ w.err \in ErrorCode => w.st = St /\ After(w) = St
    /\ \A agent \in AgentKeys, market \in MarketKeys, trade_type \in TradeTypes,
          amount \in Amounts, price \in Prices :
        LET r == place_trade(St, agent, market, trade_type, amount, price) IN
        r.err \in ErrorCode => r.st = St /\ After(r) = St
    /\ \A user \in Users, trade \in TradeKeys, market \in MarketKeys,
          agent \in AgentKeys, token_in_mint \in Mints, token_out_mint \in Mints :
        LET r == execute_trade(St, user, trade, market, agent,
                               token_in_mint, token_out_mint)
        IN
        r.err \in ErrorCode => r.st = St /\ After(r) = St

\* C13 witness: a buy Trade presented with the mints of a sell by a user whose
\* token account could pay the first transfer, refused with InvalidTokenAccounts
C13_NamedErrorRaised ==
    \E user \in Users, trade \in DOMAIN trades :
        LET t == trades[trade]
            m == markets[t.market]
        IN
        /\ t.trade_type = 0
        /\ user_token_account[user][m.token_b] >= t.amount
        /\ execute_trade(St, user, trade, t.market, t.agent, m.token_b, m.token_a).err
               \in ErrorCode

\* C14: in every reachable state each vault's custody balance is the sum of
\* the successful deposits and settlement leg-1 inflows into it less the
\* successful withdrawals and settlement leg-2 outflows from it (net_flow), and
\* register_agent, initialize_market and place_trade leave the balance of every
\* existing vault as it is, a new vault starting at zero.
C14_CustodyIsNetFlow ==
    /\ DOMAIN vault_token_account = DOMAIN vaults
    /\ \A v \in DOMAIN vaults : vault_token_account[v] = net_flow[v]
    /\ \A v \in VaultKeys \ DOMAIN vaults : net_flow[v] = 0
    /\ \A user \in Users, v \in DOMAIN vaults :
          register_agent(St, user).st.vault_token_account[v] = vault_token_account[v]
    /\ \A a \in Mints, b \in Mints :
        LET r == initialize_market(St, a, b) IN
        /\ \A v \in DOMAIN vaults : r.st.vault_token_account[v] = vault_token_account[v]
        /\ \A v \in DOMAIN After(r).vault_token_account \ DOMAIN vaults :
              After(r).vault_token_account[v] = 0
    /\ \A agent \in AgentKeys, market \in MarketKeys, trade_type \in TradeTypes,
          amount \in Amounts, price \in Prices, v \in DOMAIN vaults :
          place_trade(St, agent, market, trade_type, amount, price)
              .st.vault_token_account[v] = vault_token_account[v]

\* C14 witness: a vault holds tokens, a user holds more of a mint than at the
\* start (tokens have left a vault again) and a Trade is live
C14_FlowsBothWays ==
    /\ \E v \in DOMAIN vaults : vault_token_account[v] > 0
    /\ \E u \in Users, m \in Mints : user_token_account[u][m] > InitBalance
    /\ trades # <<>>

\* C15: every Market has token_a different from token_b, and
\* initialize_market with the same mint for both tokens fails and creates no
\* Market and no Vault.
C15_MarketTokensDiffer ==
    /\ \A market \in DOMAIN markets : markets[market].token_a # markets[market].token_b
    /\ \A a \in Mints :
        LET r == initialize_market(St, a, a) IN
        /\ r.err # "Ok"
        /\ After(r) = St
        /\ MarketKey(a, a) \notin DOMAIN After(r).markets

\* C15 witness: with a market initialized, initialize_market with one mint for
\* both tokens gets as far as the second vault and is refused there
C15_SameMintRefused ==
    /\ markets # <<>>
    /\ \E a \in PairMints :
        LET r == initialize_market(St, a, a) IN
        /\ MarketKey(a, a) \notin DOMAIN markets
        /\ MarketKey(a, a) \in DOMAIN r.st.markets
        /\ r.err = "AccountAlreadyInUse"

\* C16: initialize_market for an ordered pair that already has a Market fails
\* and changes nothing; for a free pair of two different mints it succeeds and
\* adds exactly the Market and its two Vaults, the Vault of token_a and the
\* Vault of token_b, each referring to the Market; and in every reachable state
\* each Market has exactly one Vault per token of the market, and every Vault
\* is such a Vault.
C16_OneVaultPerMarketToken ==
    /\ \A a \in Mints, b \in Mints :
        LET r == initialize_market(St, a, b)
            market == MarketKey(a, b)
        IN
        /\ market \in DOMAIN markets => r.err # "Ok" /\ After(r) = St
        /\ market \notin DOMAIN markets /\ a # b => r.err = "Ok"
        /\ r.err = "Ok" =>
            After(r) = [St EXCEPT
                !.markets = @ @@ (market :>
                    [token_a |-> a, token_b |-> b, bump |-> bump_of(market)]),
                !.vaults = @ @@ (VaultKey(a, b, a) :>
                                   [market |-> market, token |-> a,
                                    bump |-> bump_of(VaultKey(a, b, a))])
                             @@ (VaultKey(a, b, b) :>
                                   [market |-> market, token |-> b,
                                    bump |-> bump_of(VaultKey(a, b, b))]),
                !.vault_token_account = @ @@ (VaultKey(a, b, a) :> 0)
                                          @@ (VaultKey(a, b, b) :> 0)]
    /\ \A market \in DOMAIN markets :
        \A token \in {markets[market].token_a, markets[market].token_b} :
            Cardinality({v \in DOMAIN vaults : /\ vaults[v].market = market
                                               /\ vaults[v].token = token}) = 1
    /\ \A v \in DOMAIN vaults :
        /\ vaults[v].market \in DOMAIN markets
        /\ vaults[v].token \in {markets[vaults[v].market].token_a,
                                markets[vaults[v].market].token_b}

\* C16 witness: both ordered pairs of two mints have a Market, a vault holds
\* tokens, and initialize_market for one of the pairs is refused
C16_SecondInitializeRefused ==
    \E a \in PairMints, b \in PairMints :
        /\ MarketKey(a, b) \in DOMAIN markets
        /\ MarketKey(b, a) \in DOMAIN markets
        /\ vault_token_account[VaultKey(a, b, a)] > 0
        /\ initialize_market(St, a, b).err = "AccountAlreadyInUse"

\* C17: the Agent at an address is the Agent of its owner, so there is at most
\* one Agent per owner; register_agent by a user who has an Agent fails and
\* changes nothing; register_agent by a user who has none succeeds and adds
\* exactly one Agent, whose owner is the signing user.
C17_OneAgentPerOwner ==
    /\ \A agent \in DOMAIN agents : agent = AgentKey(agents[agent].owner)
    /\ \A user \in Users :
        LET r == register_agent(St, user) IN
        IF AgentKey(user) \in DOMAIN agents
        THEN r.err # "Ok" /\ After(r) = St
        ELSE /\ r.err = "Ok"
             /\ After(r) = [St EXCEPT !.agents = @ @@ (AgentKey(user) :>
                               [owner |-> user, bump |-> bump_of(AgentKey(user))])]

\* C17 witness: one user has an Agent and is refused a second, another user
\* has none yet
C17_SecondRegistrationRefused ==
    \E u \in Users, w \in Users :
        /\ AgentKey(u) \in DOMAIN agents
        /\ AgentKey(w) \notin DOMAIN agents
        /\ register_agent(St, u).err = "AccountAlreadyInUse"
        /\ register_agent(St, w).err = "Ok"

\* C18: every deposit_tokens, withdraw_tokens, place_trade and execute_trade
\* call, successful or failed, returns with the Agent, Market and Vault accounts
\* exactly as they were (every record present, every field as before), and so
\* leaves them after the call; register_agent and initialize_market keep every
\* record that exists.
C18_RecordsImmutable ==
    /\ \A user \in Users, agent \in AgentKeys, market \in MarketKeys,
          token_mint \in Mints, amount \in Amounts :
        LET d == deposit_tokens(St, user, agent, market, token_mint, amount)
            w == withdraw_tokens(St, user, agent, market, token_mint, amount)
        IN
        /\ d.st.agents = agents /\ d.st.markets = markets /\ d.st.vaults = vaults
        /\ w.st.agents = agents /\ w.st.markets = markets /\ w.st.vaults = vaults
        /\ After(d).agents = agents /\ After(d).markets = markets
        /\ After(d).vaults = vaults
        /\ After(w).agents = agents /\ After(w).markets = markets
        /\ After(w).vaults = vaults
    /\ \A agent \in AgentKeys, market \in MarketKeys, trade_type \in TradeTypes,
          amount \in Amounts, price \in Prices :
        LET r == place_trade(St, agent, market, trade_type, amount, price) IN
        /\ r.st.agents = agents /\ r.st.markets = markets /\ r.st.vaults = vaults
        /\ After(r).agents = agents /\ After(r).markets = markets
        /\ After(r).vaults = vaults
    /\ \A user \in Users, trade \in TradeKeys, market \in MarketKeys,
          agent \in AgentKeys, token_in_mint \in Mints, token_out_mint \in Mints :
        LET r == execute_trade(St, user, trade, market, agent,
                               token_in_mint, token_out_mint)
        IN
        /\ r.st.agents = agents /\ r.st.markets = markets /\ r.st.vaults = vaults
        /\ After(r).agents = agents /\ After(r).markets = markets
        /\ After(r).vaults = vaults
    /\ \A user \in Users :
        LET s == After(register_agent(St, user)) IN
        /\ \A agent \in DOMAIN agents :
              agent \in DOMAIN s.agents /\ s.agents[agent] = agents[agent]
        /\ s.markets = markets /\ s.vaults = vaults
    /\ \A a \in Mints, b \in Mints :
        LET s == After(initialize_market(St, a, b)) IN
        /\ s.agents = agents
        /\ \A market \in DOMAIN markets :
              market \in DOMAIN s.markets /\ s.markets[market] = markets[market]
        /\ \A v \in DOMAIN vaults :
              v \in DOMAIN s.vaults /\ s.vaults[v] = vaults[v]

\* C18 witness: with two Agents and two Markets in existence, a deposit, a
\* withdrawal, a placement and a settlement can each succeed
C18_AllFourCanSucceed ==
    /\ Cardinality(DOMAIN agents) = 2
    /\ Cardinality(DOMAIN markets) = 2
    /\ \E user \in Users, market \in DOMAIN markets, token_mint \in PairMints :
        /\ deposit_tokens(St, user, AgentKey(user), market, token_mint, 1).err = "Ok"
        /\ withdraw_tokens(St, user, AgentKey(user), market, token_mint, 1).err = "Ok"
    /\ \E agent \in DOMAIN agents, market \in DOMAIN markets :
        place_trade(St, agent, market, 0, 1, 1).err = "Ok"
    /\ \E user \in Users, trade \in DOMAIN trades, market \in DOMAIN markets,
          token_in_mint \in PairMints, token_out_mint \in PairMints :
        execute_trade(St, user, trade, market, trades[trade].agent,
                      token_in_mint, token_out_mint).err = "Ok"

\* C19: every Vault's stored market, token and bump re-derive the address it
\* was created at.  A withdraw_tokens call whose accounts pass validation signs
\* with ("vault", market.token_a, market.token_b, token_mint, vault.bump), which
\* is that tuple of the vault of (market, token_mint): the transfer is never
\* refused for its signer and no other vault's balance changes.  The same holds
\* for leg 2 of an execute_trade call that reaches it, for the vault of
\* (market, token-out).  A transfer from a vault's token account signed with
\* any other seeds or bump is refused and moves nothing.
C19_VaultSignsWithCreationSeeds ==
    /\ \A v \in DOMAIN vaults :
        LET m == markets[vaults[v].market] IN
        /\ create_program_address(<<"vault", m.token_a, m.token_b, vaults[v].token>>,
                                  vaults[v].bump) = v
        /\ vaults[v].bump = find_program_address(v).bump
    /\ \A user \in Users, agent \in AgentKeys, market \in MarketKeys,
          token_mint \in Mints, amount \in Amounts :
        LET r == withdraw_tokens(St, user, agent, market, token_mint, amount) IN
        /\ r.err # "PrivilegeEscalation"
        /\ ledger_accounts(St, user, agent, market, token_mint) = "Ok" =>
            LET vault == vault_address(St, market, token_mint) IN
            /\ vaults[vault].market = market
            /\ vaults[vault].token = token_mint
            /\ \A v \in DOMAIN vaults \ {vault} :
                  r.st.vault_token_account[v] = vault_token_account[v]
            /\ r.err = "Ok" =>
                  r.st.vault_token_account[vault] = vault_token_account[vault] - amount
    /\ \A user \in Users, trade \in TradeKeys, market \in MarketKeys,
          agent \in AgentKeys, token_in_mint \in Mints, token_out_mint \in Mints :
        LET r == execute_trade(St, user, trade, market, agent,
                               token_in_mint, token_out_mint)
        IN
        /\ r.err # "PrivilegeEscalation"
        /\ r.err = "Ok" =>
            LET vault_out == vault_address(St, market, token_out_mint) IN
            /\ vaults[vault_out].market = market
            /\ vaults[vault_out].token = token_out_mint
            /\ \A v \in DOMAIN vaults :
                  r.st.vault_token_account[v] < vault_token_account[v] => v = vault_out
    /\ \A v \in DOMAIN vaults, seeds \in VaultKeys, user \in Users, amount \in Amounts :
        \A bump \in {bump_of(seeds), bump_of(seeds) - 1} :
            LET signer == create_program_address(seeds, bump)
                r == transfer_from_vault(St, v, user, vaults[v].token, signer, amount)
            IN
            IF seeds = v /\ bump = vaults[v].bump
            THEN r.err # "PrivilegeEscalation"
            ELSE r.err = "PrivilegeEscalation" /\ r.st = St

\* C19 witness: four vaults exist, a withdrawal of two tokens can be paid, and
\* a settlement can reach and pass its vault-signed leg 2
C19_VaultSignedTransfersSucceed ==
    /\ Cardinality(DOMAIN vaults) = 4
    /\ \E user \in Users, market \in DOMAIN markets, token_mint \in PairMints :
        withdraw_tokens(St, user, AgentKey(user), market, token_mint, 2).err = "Ok"
    /\ \E user \in Users, trade \in DOMAIN trades :
        LET keys == resolve_tokens(trades[trade].trade_type,
                                   markets[trades[trade].market])
        IN execute_trade(St, user, trade, trades[trade].market, trades[trade].agent,
                         keys[1], keys[2]).err = "Ok"

\* C20: execute_trade presented with a Market other than the one stored in the
\* Trade fails and takes no tokens out of any vault.
C20_SettledOnItsOwnMarket ==
    \A user \in Users, trade \in DOMAIN trades, market \in DOMAIN markets,
       token_in_mint \in Mints, token_out_mint \in Mints :
        LET r == execute_trade(St, user, trade, market, trades[trade].agent,
                               token_in_mint, token_out_mint)
        IN
        market # trades[trade].market
            => /\ r.err # "Ok"
               /\ \A v \in DOMAIN vaults :
                     After(r).vault_token_account[v] >= vault_token_account[v]

\* the sum of f over the finite set S
RECURSIVE SumOver(_, _)
SumOver(S, f) ==
    IF S = {} THEN 0
    ELSE LET x == CHOOSE y \in S : TRUE IN f[x] + SumOver(S \ {x}, f)

\* the tokens of a mint in the accounts s: in the users' token accounts of the
\* mint and in the token accounts of the vaults that custody the mint
supply(s, mint) ==
    SumOver(Users, [u \in Users |-> s.user_token_account[u][mint]])
    + SumOver({v \in DOMAIN s.vaults : s.vaults[v].token = mint}, s.vault_token_account)

\* C21: for each mint the tokens held in all user token accounts and all vault
\* custody accounts together are in every reachable state what they were at
\* the start, and every deposit_tokens, withdraw_tokens, place_trade and
\* execute_trade call leaves that total as it found it: a failed call changes
\* no account, a successful one moves tokens without making or destroying any.
C21_TokenConservation ==
    /\ \A mint \in Mints : supply(St, mint) = Cardinality(Users) * InitBalance
    /\ \A user \in Users, agent \in AgentKeys, market \in MarketKeys,
          token_mint \in Mints, amount \in Amounts :
        LET d == deposit_tokens(St, user, agent, market, token_mint, amount)
            w == withdraw_tokens(St, user, agent, market, token_mint, amount)
        IN
        /\ d.err # "Ok" => After(d) = St
        /\ w.err # "Ok" => After(w) = St
        /\ d.err = "Ok" =>
              \A mint \in Mints : supply(After(d), mint) = supply(St, mint)
        /\ w.err = "Ok" =>
              \A mint \in Mints : supply(After(w), mint) = supply(St, mint)
    /\ \A agent \in AgentKeys, market \in MarketKeys, trade_type \in TradeTypes,
          amount \in Amounts, price \in Prices :
        LET r == place_trade(St, agent, market, trade_type, amount, price) IN
        /\ After(r).user_token_account = user_token_account
        /\ After(r).vault_token_account = vault_token_account
        /\ After(r).vaults = vaults
    /\ \A user \in Users, trade \in TradeKeys, market \in MarketKeys,
          agent \in AgentKeys, token_in_mint \in Mints, token_out_mint \in Mints :
        LET r == execute_trade(St, user, trade, market, agent,
                               token_in_mint, token_out_mint)
        IN
        /\ r.err # "Ok" => After(r) = St
        /\ r.err = "Ok" =>
              \A mint \in Mints : supply(After(r), mint) = supply(St, mint)

\* C21 witness: one user holds none of a mint, a vault holds tokens of it,
\* another user holds more of another mint than at the start, and a
\* settlement can succeed
C21_TokensSpread ==
    \E mint \in PairMints, other \in PairMints, u \in Users, w \in Users :
        /\ mint # other
        /\ user_token_account[u][mint] = 0
        /\ \E v \in DOMAIN vaults : vaults[v].token = mint /\ vault_token_account[v] > 0
        /\ user_token_account[w][other] > InitBalance
        /\ \E user \in Users, trade \in DOMAIN trades, market \in DOMAIN markets,
              token_in_mint \in PairMints, token_out_mint \in PairMints :
            execute_trade(St, user, trade, market, trades[trade].agent,
                          token_in_mint, token_out_mint).err = "Ok"

====
